---- MODULE Spec2Model ----
(***************************************************************************)
(* Order-book replica of bitfinex_orderbook_live.                          *)
(*                                                                         *)
(*   examples/websocket/public/order_book.py                               *)
(*       OrderBook (update / verify / is_verifiable / clear), the event    *)
(*       handlers on_t_book_snapshot, on_t_book_update, on_checksum and    *)
(*       the coroutine _reset_connection with its two awaits.              *)
(*   bfxapi/websocket/_handlers/public_channels_handler.py                 *)
(*       PublicChannelsHandler.handle and the per-channel handlers.        *)
(*                                                                         *)
(* Three specifications share the variables:                               *)
(*   Spec        the recording script driven by the transport,             *)
(*   SpecBook    OrderBook alone, under arbitrary update() calls,          *)
(*   SpecHandle  PublicChannelsHandler.handle on arbitrary frames.         *)
(*                                                                         *)
(* Numbers.  Prices, counts and amounts are integers, as json delivers     *)
(* them when the venue sends no fraction.  A 32-bit checksum is the tuple  *)
(* of its four bytes, most significant first; an integer of the wire that  *)
(* may lie outside 0..2^31-1 is the pair <<hi, lo>> standing for           *)
(* hi * 2^16 + lo with lo in 0..2^16-1.                                    *)
(***************************************************************************)
EXTENDS Integers, Sequences, FiniteSets, TLC

VARIABLES
    order_book,                      \* OrderBook.__order_book: [bids, asks], each an OrderedDict
    timestamp_orderbook_update_map,  \* the journal: key -> entry
    last_checksum_timestamp,
    starting_timestamp,
    ending_timestamp,
    are_new_messages_to_drop,
    tasks,        \* the _reset_connection coroutines suspended at an await
    chan,         \* transport: state of the book subscription
    cur_sub,      \* transport: sub_id of the subscription chan is about
    next_sub,     \* transport: next sub_id to hand out
    files,        \* every record written by save_orderbook_messages_to_file
    calls,        \* log: requests to bfx.wss, clears of the journal and the book, snapshots handled
    now,          \* timestamp of the latest frame
    frames,       \* number of frames delivered
    ev,           \* the frame handled last
    emitted,      \* what the event emitter was asked to emit for it
    expected,     \* history.  Spec: the latest snapshot and the updates delivered since,
                  \* applied to an empty book.  SpecBook: the book before the latest update()
    resets        \* number of _reset_connection calls so far

vars == << order_book, timestamp_orderbook_update_map, last_checksum_timestamp,
           starting_timestamp, ending_timestamp, are_new_messages_to_drop,
           tasks, chan, cur_sub, next_sub, files, calls, now, frames, ev,
           emitted, expected, resets >>

-----------------------------------------------------------------------------
(* Bounds of the model. *)

MaxFrames == 4      \* frames delivered in one behaviour of Spec
MaxResets == 2      \* _reset_connection calls in one behaviour of Spec
MaxApplies == 2     \* update() calls in one behaviour of SpecBook

(* Program constants. *)

VerifyDepth == 25                   \* order_book.py:71, 74, 87, 88
SECONDS_RECORDING_DURATION == 3300  \* order_book.py:96
BookLen == 25                       \* order_book.py:109, len="25"

-----------------------------------------------------------------------------
(* zlib.crc32 (order_book.py:81): the table-driven CRC-32 of zip/gzip,     *)
(* polynomial 0xEDB88320, register preset to and finally xored with        *)
(* 0xFFFFFFFF.  CrcTable[n + 1] is the table entry of byte n.              *)

CrcTable ==
    << <<0, 0, 0, 0>>, <<119, 7, 48, 150>>, <<238, 14, 97, 44>>, <<153, 9, 81, 186>>,
       <<7, 109, 196, 25>>, <<112, 106, 244, 143>>, <<233, 99, 165, 53>>, <<158, 100, 149, 163>>,
       <<14, 219, 136, 50>>, <<121, 220, 184, 164>>, <<224, 213, 233, 30>>, <<151, 210, 217, 136>>,
       <<9, 182, 76, 43>>, <<126, 177, 124, 189>>, <<231, 184, 45, 7>>, <<144, 191, 29, 145>>,
       <<29, 183, 16, 100>>, <<106, 176, 32, 242>>, <<243, 185, 113, 72>>, <<132, 190, 65, 222>>,
       <<26, 218, 212, 125>>, <<109, 221, 228, 235>>, <<244, 212, 181, 81>>, <<131, 211, 133, 199>>,
       <<19, 108, 152, 86>>, <<100, 107, 168, 192>>, <<253, 98, 249, 122>>, <<138, 101, 201, 236>>,
       <<20, 1, 92, 79>>, <<99, 6, 108, 217>>, <<250, 15, 61, 99>>, <<141, 8, 13, 245>>,
       <<59, 110, 32, 200>>, <<76, 105, 16, 94>>, <<213, 96, 65, 228>>, <<162, 103, 113, 114>>,
       <<60, 3, 228, 209>>, <<75, 4, 212, 71>>, <<210, 13, 133, 253>>, <<165, 10, 181, 107>>,
       <<53, 181, 168, 250>>, <<66, 178, 152, 108>>, <<219, 187, 201, 214>>, <<172, 188, 249, 64>>,
       <<50, 216, 108, 227>>, <<69, 223, 92, 117>>, <<220, 214, 13, 207>>, <<171, 209, 61, 89>>,
       <<38, 217, 48, 172>>, <<81, 222, 0, 58>>, <<200, 215, 81, 128>>, <<191, 208, 97, 22>>,
       <<33, 180, 244, 181>>, <<86, 179, 196, 35>>, <<207, 186, 149, 153>>, <<184, 189, 165, 15>>,
       <<40, 2, 184, 158>>, <<95, 5, 136, 8>>, <<198, 12, 217, 178>>, <<177, 11, 233, 36>>,
       <<47, 111, 124, 135>>, <<88, 104, 76, 17>>, <<193, 97, 29, 171>>, <<182, 102, 45, 61>>,
       <<118, 220, 65, 144>>, <<1, 219, 113, 6>>, <<152, 210, 32, 188>>, <<239, 213, 16, 42>>,
       <<113, 177, 133, 137>>, <<6, 182, 181, 31>>, <<159, 191, 228, 165>>, <<232, 184, 212, 51>>,
       <<120, 7, 201, 162>>, <<15, 0, 249, 52>>, <<150, 9, 168, 142>>, <<225, 14, 152, 24>>,
       <<127, 106, 13, 187>>, <<8, 109, 61, 45>>, <<145, 100, 108, 151>>, <<230, 99, 92, 1>>,
       <<107, 107, 81, 244>>, <<28, 108, 97, 98>>, <<133, 101, 48, 216>>, <<242, 98, 0, 78>>,
       <<108, 6, 149, 237>>, <<27, 1, 165, 123>>, <<130, 8, 244, 193>>, <<245, 15, 196, 87>>,
       <<101, 176, 217, 198>>, <<18, 183, 233, 80>>, <<139, 190, 184, 234>>, <<252, 185, 136, 124>>,
       <<98, 221, 29, 223>>, <<21, 218, 45, 73>>, <<140, 211, 124, 243>>, <<251, 212, 76, 101>>,
       <<77, 178, 97, 88>>, <<58, 181, 81, 206>>, <<163, 188, 0, 116>>, <<212, 187, 48, 226>>,
       <<74, 223, 165, 65>>, <<61, 216, 149, 215>>, <<164, 209, 196, 109>>, <<211, 214, 244, 251>>,
       <<67, 105, 233, 106>>, <<52, 110, 217, 252>>, <<173, 103, 136, 70>>, <<218, 96, 184, 208>>,
       <<68, 4, 45, 115>>, <<51, 3, 29, 229>>, <<170, 10, 76, 95>>, <<221, 13, 124, 201>>,
       <<80, 5, 113, 60>>, <<39, 2, 65, 170>>, <<190, 11, 16, 16>>, <<201, 12, 32, 134>>,
       <<87, 104, 181, 37>>, <<32, 111, 133, 179>>, <<185, 102, 212, 9>>, <<206, 97, 228, 159>>,
       <<94, 222, 249, 14>>, <<41, 217, 201, 152>>, <<176, 208, 152, 34>>, <<199, 215, 168, 180>>,
       <<89, 179, 61, 23>>, <<46, 180, 13, 129>>, <<183, 189, 92, 59>>, <<192, 186, 108, 173>>,
       <<237, 184, 131, 32>>, <<154, 191, 179, 182>>, <<3, 182, 226, 12>>, <<116, 177, 210, 154>>,
       <<234, 213, 71, 57>>, <<157, 210, 119, 175>>, <<4, 219, 38, 21>>, <<115, 220, 22, 131>>,
       <<227, 99, 11, 18>>, <<148, 100, 59, 132>>, <<13, 109, 106, 62>>, <<122, 106, 90, 168>>,
       <<228, 14, 207, 11>>, <<147, 9, 255, 157>>, <<10, 0, 174, 39>>, <<125, 7, 158, 177>>,
       <<240, 15, 147, 68>>, <<135, 8, 163, 210>>, <<30, 1, 242, 104>>, <<105, 6, 194, 254>>,
       <<247, 98, 87, 93>>, <<128, 101, 103, 203>>, <<25, 108, 54, 113>>, <<110, 107, 6, 231>>,
       <<254, 212, 27, 118>>, <<137, 211, 43, 224>>, <<16, 218, 122, 90>>, <<103, 221, 74, 204>>,
       <<249, 185, 223, 111>>, <<142, 190, 239, 249>>, <<23, 183, 190, 67>>, <<96, 176, 142, 213>>,
       <<214, 214, 163, 232>>, <<161, 209, 147, 126>>, <<56, 216, 194, 196>>, <<79, 223, 242, 82>>,
       <<209, 187, 103, 241>>, <<166, 188, 87, 103>>, <<63, 181, 6, 221>>, <<72, 178, 54, 75>>,
       <<216, 13, 43, 218>>, <<175, 10, 27, 76>>, <<54, 3, 74, 246>>, <<65, 4, 122, 96>>,
       <<223, 96, 239, 195>>, <<168, 103, 223, 85>>, <<49, 110, 142, 239>>, <<70, 105, 190, 121>>,
       <<203, 97, 179, 140>>, <<188, 102, 131, 26>>, <<37, 111, 210, 160>>, <<82, 104, 226, 54>>,
       <<204, 12, 119, 149>>, <<187, 11, 71, 3>>, <<34, 2, 22, 185>>, <<85, 5, 38, 47>>,
       <<197, 186, 59, 190>>, <<178, 189, 11, 40>>, <<43, 180, 90, 146>>, <<92, 179, 106, 4>>,
       <<194, 215, 255, 167>>, <<181, 208, 207, 49>>, <<44, 217, 158, 139>>, <<91, 222, 174, 29>>,
       <<155, 100, 194, 176>>, <<236, 99, 242, 38>>, <<117, 106, 163, 156>>, <<2, 109, 147, 10>>,
       <<156, 9, 6, 169>>, <<235, 14, 54, 63>>, <<114, 7, 103, 133>>, <<5, 0, 87, 19>>,
       <<149, 191, 74, 130>>, <<226, 184, 122, 20>>, <<123, 177, 43, 174>>, <<12, 182, 27, 56>>,
       <<146, 210, 142, 155>>, <<229, 213, 190, 13>>, <<124, 220, 239, 183>>, <<11, 219, 223, 33>>,
       <<134, 211, 210, 212>>, <<241, 212, 226, 66>>, <<104, 221, 179, 248>>, <<31, 218, 131, 110>>,
       <<129, 190, 22, 205>>, <<246, 185, 38, 91>>, <<111, 176, 119, 225>>, <<24, 183, 71, 119>>,
       <<136, 8, 90, 230>>, <<255, 15, 106, 112>>, <<102, 6, 59, 202>>, <<17, 1, 11, 92>>,
       <<143, 101, 158, 255>>, <<248, 98, 174, 105>>, <<97, 107, 255, 211>>, <<22, 108, 207, 69>>,
       <<160, 10, 226, 120>>, <<215, 13, 210, 238>>, <<78, 4, 131, 84>>, <<57, 3, 179, 194>>,
       <<167, 103, 38, 97>>, <<208, 96, 22, 247>>, <<73, 105, 71, 77>>, <<62, 110, 119, 219>>,
       <<174, 209, 106, 74>>, <<217, 214, 90, 220>>, <<64, 223, 11, 102>>, <<55, 216, 59, 240>>,
       <<169, 188, 174, 83>>, <<222, 187, 158, 197>>, <<71, 178, 207, 127>>, <<48, 181, 255, 233>>,
       <<189, 189, 242, 28>>, <<202, 186, 194, 138>>, <<83, 179, 147, 48>>, <<36, 180, 163, 166>>,
       <<186, 208, 54, 5>>, <<205, 215, 6, 147>>, <<84, 222, 87, 41>>, <<35, 217, 103, 191>>,
       <<179, 102, 122, 46>>, <<196, 97, 74, 184>>, <<93, 104, 27, 2>>, <<42, 111, 43, 148>>,
       <<180, 11, 190, 55>>, <<195, 12, 142, 161>>, <<90, 5, 223, 27>>, <<45, 2, 239, 141>> >>

XorNibble ==
    << <<0, 1, 2, 3, 4, 5, 6, 7, 8, 9, 10, 11, 12, 13, 14, 15>>,
       <<1, 0, 3, 2, 5, 4, 7, 6, 9, 8, 11, 10, 13, 12, 15, 14>>,
       <<2, 3, 0, 1, 6, 7, 4, 5, 10, 11, 8, 9, 14, 15, 12, 13>>,
       <<3, 2, 1, 0, 7, 6, 5, 4, 11, 10, 9, 8, 15, 14, 13, 12>>,
       <<4, 5, 6, 7, 0, 1, 2, 3, 12, 13, 14, 15, 8, 9, 10, 11>>,
       <<5, 4, 7, 6, 1, 0, 3, 2, 13, 12, 15, 14, 9, 8, 11, 10>>,
       <<6, 7, 4, 5, 2, 3, 0, 1, 14, 15, 12, 13, 10, 11, 8, 9>>,
       <<7, 6, 5, 4, 3, 2, 1, 0, 15, 14, 13, 12, 11, 10, 9, 8>>,
       <<8, 9, 10, 11, 12, 13, 14, 15, 0, 1, 2, 3, 4, 5, 6, 7>>,
       <<9, 8, 11, 10, 13, 12, 15, 14, 1, 0, 3, 2, 5, 4, 7, 6>>,
       <<10, 11, 8, 9, 14, 15, 12, 13, 2, 3, 0, 1, 6, 7, 4, 5>>,
       <<11, 10, 9, 8, 15, 14, 13, 12, 3, 2, 1, 0, 7, 6, 5, 4>>,
       <<12, 13, 14, 15, 8, 9, 10, 11, 4, 5, 6, 7, 0, 1, 2, 3>>,
       <<13, 12, 15, 14, 9, 8, 11, 10, 5, 4, 7, 6, 1, 0, 3, 2>>,
       <<14, 15, 12, 13, 10, 11, 8, 9, 6, 7, 4, 5, 2, 3, 0, 1>>,
       <<15, 14, 13, 12, 11, 10, 9, 8, 7, 6, 5, 4, 3, 2, 1, 0>> >>

Xor8(a, b) ==
    16 * XorNibble[(a \div 16) + 1][(b \div 16) + 1]
       + XorNibble[(a % 16) + 1][(b % 16) + 1]

XorWord(x, y) ==
    << Xor8(x[1], y[1]), Xor8(x[2], y[2]), Xor8(x[3], y[3]), Xor8(x[4], y[4]) >>

AllOnes == <<255, 255, 255, 255>>

\* crc = table[(crc ^ byte) & 0xFF] ^ (crc >> 8)
CrcStep(crc, b) ==
    LET t == CrcTable[Xor8(crc[4], b) + 1]
    IN  << t[1], Xor8(t[2], crc[1]), Xor8(t[3], crc[2]), Xor8(t[4], crc[3]) >>

\* The bytes are folded left to right; the fold is split in halves only to
\* keep the evaluation shallow.
crc32(bytes) ==
    LET n == Len(bytes)
        upd[crc \in Seq(Nat), lo \in Nat, hi \in Nat] ==
            IF lo > hi THEN crc
            ELSE IF lo = hi THEN CrcStep(crc, bytes[lo])
            ELSE upd[upd[crc, lo, (lo + hi) \div 2], ((lo + hi) \div 2) + 1, hi]
    IN  XorWord(upd[AllOnes, 1, n], AllOnes)

-----------------------------------------------------------------------------
(* _format_float (order_book.py:16-29) on integers.                        *)

\* floor(log10(abs(number))): one less than the number of decimal digits
\* (log10(0) raises; no price or amount of the model is 0)
find_exp(number) ==
    LET m == IF number < 0 THEN -number ELSE number
        e[k \in Nat] == IF k < 10 THEN 0 ELSE 1 + e[k \div 10]
    IN  e[m]

\* the decimal digits of a natural number, as ASCII codes
Digits(n) ==
    LET d[k \in Nat] == IF k < 10 THEN <<48 + k>> ELSE Append(d[k \div 10], 48 + (k % 10))
    IN  d[n]

\* repr / str of an int: an optional "-" and the digits
repr(value) == IF value < 0 THEN <<45>> \o Digits(-value) ELSE Digits(value)

\* format(Decimal(repr(value)), "f") when the exponent is >= -6, else
\* str(value).replace("e-0", "e-"); an int has no exponent part to rewrite.
format_float(value) ==
    IF find_exp(value) >= -6 THEN repr(value) ELSE repr(value)

\* ":".join(_format_float(value) for value in values).encode("UTF-8")
Join(values) ==
    LET j[lo \in Nat, hi \in Nat] ==
            IF lo > hi THEN <<>>
            ELSE IF lo = hi THEN format_float(values[lo])
            ELSE j[lo, (lo + hi) \div 2] \o <<58>> \o j[((lo + hi) \div 2) + 1, hi]
    IN  j[1, Len(values)]

-----------------------------------------------------------------------------
(* OrderedDict: a sequence of [key, val] in insertion order, keys unique.  *)

EmptyDict == <<>>

Keys(d) == {d[i].key : i \in 1..Len(d)}

HasKey(d, k) == \E i \in 1..Len(d) : d[i].key = k

IndexOf(d, k) == CHOOSE i \in 1..Len(d) : d[i].key = k

\* SetItem, had the side been a list of levels: every level is appended
SetItemAppend(d, k, v) == Append(d, [key |-> k, val |-> v])

\* d[k] = v: an existing key keeps its place, a new key goes last
SetItem(d, k, v) ==
    IF HasKey(d, k)
    THEN [d EXCEPT ![IndexOf(d, k)] = [key |-> k, val |-> v]]
    ELSE Append(d, [key |-> k, val |-> v])

\* del d[k]
DelItem(d, k) ==
    LET i == IndexOf(d, k)
    IN  SubSeq(d, 1, i - 1) \o SubSeq(d, i + 1, Len(d))

-----------------------------------------------------------------------------
(* class OrderBook (order_book.py:32-92).                                  *)

EmptyBook == [bids |-> EmptyDict, asks |-> EmptyDict]

Level(price, count, amount) == [price |-> price, count |-> count, amount |-> amount]

\* update, with `>=` for the `>` of line 39: amount 0 selects the bids
update_zero_is_bid(book, data) ==
    LET price  == data.price
        count  == data.count
        amount == data.amount
        kind   == IF amount >= 0 THEN "bids" ELSE "asks"
        upsert == IF count > 0
                  THEN [book EXCEPT ![kind] =
                            SetItem(book[kind], price, [p |-> price, c |-> count, a |-> amount])]
                  ELSE book
    IN  IF count = 0 /\ HasKey(upsert[kind], price)
        THEN [upsert EXCEPT ![kind] = DelItem(upsert[kind], price)]
        ELSE upsert

\* update, without the removal of lines 48-50
update_keeps_level(book, data) ==
    LET kind == IF data.amount > 0 THEN "bids" ELSE "asks"
    IN  IF data.count > 0
        THEN [book EXCEPT ![kind] =
                  SetItem(book[kind], data.price,
                          [p |-> data.price, c |-> data.count, a |-> data.amount])]
        ELSE book

\* OrderBook.update
update(book, data) ==
    LET price  == data.price
        count  == data.count
        amount == data.amount
        kind   == IF amount > 0 THEN "bids" ELSE "asks"
        upsert == IF count > 0
                  THEN [book EXCEPT ![kind] =
                            SetItem(book[kind], price, [p |-> price, c |-> count, a |-> amount])]
                  ELSE book
    IN  IF count = 0 /\ HasKey(upsert[kind], price)
        THEN [upsert EXCEPT ![kind] = DelItem(upsert[kind], price)]
        ELSE upsert

\* [(data["p"], data["c"], data["a"]) for _, data in side.items()]
Items(d) == [i \in 1..Len(d) |-> << d[i].val.p, d[i].val.c, d[i].val.a >>]

\* BidKey, without the sign: the bids in ascending price
BidKeyAscending(data) == data[1]

\* key=lambda data: -data[0], and key=lambda data: data[0]
BidKey(data) == -data[1]
AskKey(data) == data[1]

\* the key= argument of the sort of a side
KeyOf(side, data) == IF side = "bids" THEN BidKey(data) ELSE AskKey(data)

\* sorted(list, key=...), with the key of the side: stable, ascending in
\* the key
sorted(list, side) ==
    LET ins(s, e) ==
            LET p == Cardinality({j \in 1..Len(s) : KeyOf(side, s[j]) <= KeyOf(side, e)})
            IN  SubSeq(s, 1, p) \o <<e>> \o SubSeq(s, p + 1, Len(s))
        srt[i \in 0..Len(list)] == IF i = 0 THEN <<>> ELSE ins(srt[i - 1], list[i])
    IN  srt[Len(list)]

SortedBids(book) == sorted(Items(book.bids), "bids")
SortedAsks(book) == sorted(Items(book.asks), "asks")

\* the loop of lines 74-77 over the sorted sides
Values(bids, asks) ==
    [k \in 1..(4 * VerifyDepth) |->
        LET i == ((k - 1) \div 4) + 1
            r == (k - 1) % 4
        IN  IF r = 0 THEN bids[i][1]
            ELSE IF r = 1 THEN bids[i][3]
            ELSE IF r = 2 THEN asks[i][1]
            ELSE asks[i][3]]

\* lines 53-81: the checksum of the book, when both sides are deep enough
LocalChecksum(book) == crc32(Join(Values(SortedBids(book), SortedAsks(book))))

\* OrderBook.verify: "AssertionError" when it raises, else "True" or "False"
verify(book, checksum) ==
    IF Len(Items(book.bids)) < VerifyDepth \/ Len(Items(book.asks)) < VerifyDepth
    THEN "AssertionError"
    ELSE IF LocalChecksum(book) = checksum THEN "True" ELSE "False"

\* is_verifiable, with `or` for `and`
is_verifiable_either(book) ==
    Len(book.bids) >= VerifyDepth \/ Len(book.asks) >= VerifyDepth

\* OrderBook.is_verifiable
is_verifiable(book) ==
    Len(book.bids) >= VerifyDepth /\ Len(book.asks) >= VerifyDepth

\* OrderBook.clear
clear(book) == EmptyBook

-----------------------------------------------------------------------------
(* Frames.  A field of a raw frame is tagged with its Python type:         *)
(*   S(x) a str, N(x) a number, L(x) a list of fields.                     *)
(* A str of a subscription (symbol, key) is the sequence of its            *)
(* characters, so that startswith is computed.                             *)

S(x) == [kind |-> "str", v |-> x]
N(x) == [kind |-> "num", v |-> x]
L(x) == [kind |-> "list", v |-> x]

startswith(str, prefix) ==
    Len(str) >= Len(prefix) /\ SubSeq(str, 1, Len(prefix)) = prefix

\* all(isinstance(sub_stream, list) for sub_stream in field)
all_lists(field) ==
    /\ field.kind = "list"
    /\ \A i \in 1..Len(field.v) : field.v[i].kind = "list"

\* serializers.<Type>.parse(*fields): the record of that type over the fields
parse(type, fields) == [type |-> type, fields |-> fields]

parse_each(type, field) == [i \in 1..Len(field.v) |-> parse(type, field.v[i].v)]

\* EventEmitter.emit(event, *args)
emit(event, args) == [event |-> event, args |-> args]

_CHECKSUM == "cs"

\* Mask32, without the mask: the four bytes' places of the value as it is
Mask32Unmasked(value) ==
    << value[1] \div 256, value[1] % 256, value[2] \div 256, value[2] % 256 >>

\* value & 0xFFFFFFFF, as the four bytes of the result
Mask32(value) ==
    << (value[1] % 65536) \div 256, (value[1] % 65536) % 256,
       value[2] \div 256, value[2] % 256 >>

\* __ticker_channel_handler
ticker_channel_handler(subscription, stream) ==
    IF startswith(subscription.symbol, <<"t">>)
    THEN << emit("t_ticker_update",
                 <<subscription, parse("TradingPairTicker", stream[1].v)>>) >>
    ELSE IF startswith(subscription.symbol, <<"f">>)
    THEN << emit("f_ticker_update",
                 <<subscription, parse("FundingCurrencyTicker", stream[1].v)>>) >>
    ELSE <<>>

\* the dict of lines 63-68
events ==
    [te |-> "t_trade_execution", tu |-> "t_trade_execution_update",
     fte |-> "f_trade_execution", ftu |-> "f_trade_execution_update"]

\* __trades_channel_handler, with the trading-pair decoder on both sides
trades_channel_handler_one_decoder(subscription, stream) ==
    LET event   == stream[1]
        is_exec == /\ event.kind = "str"
                   /\ event.v \in {"te", "tu", "fte", "ftu"}
        known   == \/ startswith(subscription.symbol, <<"t">>)
                   \/ startswith(subscription.symbol, <<"f">>)
    IN  IF is_exec /\ known
        THEN << emit(events[event.v],
                     <<subscription, parse("TradingPairTrade", stream[2].v)>>) >>
        ELSE IF startswith(subscription.symbol, <<"t">>)
        THEN << emit("t_trades_snapshot",
                     <<subscription, parse_each("TradingPairTrade", stream[1])>>) >>
        ELSE IF startswith(subscription.symbol, <<"f">>)
        THEN << emit("f_trades_snapshot",
                     <<subscription, parse_each("FundingCurrencyTrade", stream[1])>>) >>
        ELSE <<>>

\* __trades_channel_handler
trades_channel_handler(subscription, stream) ==
    LET event   == stream[1]
        is_exec == /\ event.kind = "str"
                   /\ event.v # ""
                   /\ event.v \in {"te", "tu", "fte", "ftu"}
    IN  IF is_exec /\ startswith(subscription.symbol, <<"t">>)
        THEN << emit(events[event.v],
                     <<subscription, parse("TradingPairTrade", stream[2].v)>>) >>
        ELSE IF is_exec /\ startswith(subscription.symbol, <<"f">>)
        THEN << emit(events[event.v],
                     <<subscription, parse("FundingCurrencyTrade", stream[2].v)>>) >>
        ELSE IF startswith(subscription.symbol, <<"t">>)
        THEN << emit("t_trades_snapshot",
                     <<subscription, parse_each("TradingPairTrade", stream[1])>>) >>
        ELSE IF startswith(subscription.symbol, <<"f">>)
        THEN << emit("f_trades_snapshot",
                     <<subscription, parse_each("FundingCurrencyTrade", stream[1])>>) >>
        ELSE <<>>

\* __book_channel_handler
book_channel_handler(subscription, stream, timestamp) ==
    IF startswith(subscription.symbol, <<"t">>)
    THEN IF all_lists(stream[1])
         THEN << emit("t_book_snapshot",
                      <<subscription, parse_each("TradingPairBook", stream[1]), timestamp>>) >>
         ELSE << emit("t_book_update",
                      <<subscription, parse("TradingPairBook", stream[1].v), timestamp>>) >>
    ELSE IF startswith(subscription.symbol, <<"f">>)
    THEN IF all_lists(stream[1])
         THEN << emit("f_book_snapshot",
                      <<subscription, parse_each("FundingCurrencyBook", stream[1])>>) >>
         ELSE << emit("f_book_update",
                      <<subscription, parse("FundingCurrencyBook", stream[1].v)>>) >>
    ELSE <<>>

\* __raw_book_channel_handler
raw_book_channel_handler(subscription, stream) ==
    IF startswith(subscription.symbol, <<"t">>)
    THEN IF all_lists(stream[1])
         THEN << emit("t_raw_book_snapshot",
                      <<subscription, parse_each("TradingPairRawBook", stream[1])>>) >>
         ELSE << emit("t_raw_book_update",
                      <<subscription, parse("TradingPairRawBook", stream[1].v)>>) >>
    ELSE IF startswith(subscription.symbol, <<"f">>)
    THEN IF all_lists(stream[1])
         THEN << emit("f_raw_book_snapshot",
                      <<subscription, parse_each("FundingCurrencyRawBook", stream[1])>>) >>
         ELSE << emit("f_raw_book_update",
                      <<subscription, parse("FundingCurrencyRawBook", stream[1].v)>>) >>
    ELSE <<>>

\* __candles_channel_handler
candles_channel_handler(subscription, stream) ==
    IF all_lists(stream[1])
    THEN << emit("candles_snapshot", <<subscription, parse_each("Candle", stream[1])>>) >>
    ELSE << emit("candles_update", <<subscription, parse("Candle", stream[1].v)>>) >>

\* __status_channel_handler, with `else` for the test of the "liq:" prefix
status_channel_handler_else_liq(subscription, stream) ==
    IF startswith(subscription.key, <<"d", "e", "r", "i", "v", ":">>)
    THEN << emit("derivatives_status_update",
                 <<subscription, parse("DerivativesStatus", stream[1].v)>>) >>
    ELSE << emit("liquidation_feed_update",
                 <<subscription, parse("Liquidation", stream[1].v[1].v)>>) >>

\* __status_channel_handler
status_channel_handler(subscription, stream) ==
    IF startswith(subscription.key, <<"d", "e", "r", "i", "v", ":">>)
    THEN << emit("derivatives_status_update",
                 <<subscription, parse("DerivativesStatus", stream[1].v)>>) >>
    ELSE IF startswith(subscription.key, <<"l", "i", "q", ":">>)
    THEN << emit("liquidation_feed_update",
                 <<subscription, parse("Liquidation", stream[1].v[1].v)>>) >>
    ELSE <<>>

\* __checksum_handler
checksum_handler(subscription, value, timestamp) ==
    << emit("checksum", <<subscription, Mask32(value.v), timestamp>>) >>

\* PublicChannelsHandler.handle: the sequence of events emitted for the frame
handle(subscription, stream) ==
    IF subscription.channel = "ticker"
    THEN ticker_channel_handler(subscription, stream)
    ELSE IF subscription.channel = "trades"
    THEN trades_channel_handler(subscription, stream)
    ELSE IF subscription.channel = "book"
    THEN IF stream[1].kind = "str" /\ stream[1].v = _CHECKSUM
         THEN checksum_handler(subscription, stream[2], stream[3])
         ELSE IF subscription.prec # "R0"
              THEN book_channel_handler(subscription, <<stream[1]>>, stream[2])
              ELSE raw_book_channel_handler(subscription, stream)
    ELSE IF subscription.channel = "candles"
    THEN candles_channel_handler(subscription, stream)
    ELSE IF subscription.channel = "status"
    THEN status_channel_handler(subscription, stream)
    ELSE <<>>

-----------------------------------------------------------------------------
(* The recording script (order_book.py:95-213).                            *)

SYMBOL == <<"t", "B", "T", "C", "U", "S", "D">>

\* the Book subscription the transport hands to the handlers
BookSubscription(sub_id) ==
    [channel |-> "book", symbol |-> SYMBOL, prec |-> "P0", key |-> <<>>, sub_id |-> sub_id]

\* int(SECONDS_RECORDING_DURATION * 1e3)
RecordingMillis == SECONDS_RECORDING_DURATION * 1000

\* a TradingPairBook as the handlers read it: data.price, data.count, data.amount
BookData(parsed) ==
    Level(parsed.fields[1].v, parsed.fields[2].v, parsed.fields[3].v)

\* for data in snapshot: order_book.update(data) -- the levels lo..hi in
\* order; the loop is split in halves, and each half evaluated before the
\* next is entered, only to keep the evaluation shallow
RECURSIVE UpdateRange(_, _, _, _)
UpdateRange(book, snapshot, lo, hi) ==
    IF lo > hi THEN book
    ELSE IF lo = hi THEN update(book, BookData(snapshot[lo]))
    ELSE CHOOSE after \in
             { UpdateRange(half, snapshot, ((lo + hi) \div 2) + 1, hi) :
                 half \in {UpdateRange(book, snapshot, lo, (lo + hi) \div 2)} } : TRUE

UpdateAll(book, snapshot) == UpdateRange(book, snapshot, 1, Len(snapshot))

\* dict: m[k] = v
Put(m, k, v) == [x \in (DOMAIN m) \cup {k} |-> IF x = k THEN v ELSE m[x]]

EmptyMap == <<>>

\* _get_orderbook_updates_until
get_orderbook_updates_until(map, timestamp) ==
    [k \in {x \in DOMAIN map : x <= timestamp} |-> map[k]]

\* save_orderbook_messages_to_file, with the path of the normal record
\* whatever is_interrupted
SavedFileNormalPath(map, timestamp, is_interrupted) ==
    [timestamp |-> timestamp, interrupted |-> FALSE, content |-> map]

\* save_orderbook_messages_to_file: the record json.dump writes, under its path
SavedFile(map, timestamp, is_interrupted) ==
    [timestamp |-> timestamp, interrupted |-> is_interrupted, content |-> map]

\* _reset_connection up to its first await (lines 203-210): the flag, the
\* journal, and the unsubscribe request for the popped sub_id.  `marks` is
\* what the caller adds to the log before it.
ResetStart(subscription, marks) ==
    /\ resets < MaxResets
    /\ resets' = resets + 1
    /\ are_new_messages_to_drop' = TRUE
    /\ timestamp_orderbook_update_map' = EmptyMap
    /\ tasks' = Append(tasks, [pc |-> "unsubscribe", sub_id |-> subscription.sub_id])
    /\ calls' = calls \o marks \o <<"journal.clear", "unsubscribe">>

\* on_t_book_snapshot
on_t_book_snapshot(subscription, snapshot, timestamp) ==
    /\ starting_timestamp' = timestamp
    /\ ending_timestamp' = timestamp + RecordingMillis
    /\ are_new_messages_to_drop' = FALSE
    /\ order_book' = UpdateAll(order_book, snapshot)
    /\ timestamp_orderbook_update_map' =
           Put(timestamp_orderbook_update_map, timestamp, order_book')
    /\ calls' = Append(calls, "snapshot")
    /\ UNCHANGED <<last_checksum_timestamp, tasks, files, resets>>

\* line 144: map[timestamp]["p"] raises KeyError when the entry under the
\* timestamp has no "p" list (it is the snapshot copy of line 131)
RecordRaises(map, timestamp) ==
    timestamp \in DOMAIN map /\ "p" \notin DOMAIN map[timestamp]

\* lines 143-153: the journal after the update is recorded
Recorded(map, data, timestamp) ==
    IF timestamp \in DOMAIN map
    THEN [map EXCEPT ![timestamp] =
             [p |-> Append(@.p, data.price),
              a |-> Append(@.a, data.amount),
              c |-> Append(@.c, data.count)]]
    ELSE Put(map, timestamp,
             [p |-> <<data.price>>, a |-> <<data.amount>>, c |-> <<data.count>>])

\* on_t_book_update, without the test of are_new_messages_to_drop of
\* lines 138-139
on_t_book_update_no_drop(subscription, data, timestamp, raised) ==
    /\ order_book' = update(order_book, data)
    /\ UNCHANGED <<last_checksum_timestamp, starting_timestamp, ending_timestamp>>
    /\ IF RecordRaises(timestamp_orderbook_update_map, timestamp)
       THEN /\ raised = "KeyError"
            /\ UNCHANGED <<timestamp_orderbook_update_map, are_new_messages_to_drop,
                           tasks, files, calls, resets>>
       ELSE LET map == Recorded(timestamp_orderbook_update_map, data, timestamp)
            IN  /\ raised = "none"
                /\ IF timestamp >= ending_timestamp
                   THEN /\ files' = Append(files,
                               SavedFile(Put(map, -1, order_book'), timestamp, FALSE))
                        /\ ResetStart(subscription, <<"window_end">>)
                   ELSE /\ timestamp_orderbook_update_map' = map
                        /\ UNCHANGED <<are_new_messages_to_drop, tasks, files,
                                       calls, resets>>

\* on_t_book_update, with `>` for the `>=` of line 155
on_t_book_update_after_end(subscription, data, timestamp, raised) ==
    IF are_new_messages_to_drop
    THEN /\ raised = "none"
         /\ UNCHANGED <<order_book, timestamp_orderbook_update_map, last_checksum_timestamp,
                        starting_timestamp, ending_timestamp, are_new_messages_to_drop,
                        tasks, files, calls, resets>>
    ELSE /\ order_book' = update(order_book, data)
         /\ UNCHANGED <<last_checksum_timestamp, starting_timestamp, ending_timestamp>>
         /\ IF RecordRaises(timestamp_orderbook_update_map, timestamp)
            THEN /\ raised = "KeyError"
                 /\ UNCHANGED <<timestamp_orderbook_update_map, are_new_messages_to_drop,
                                tasks, files, calls, resets>>
            ELSE LET map == Recorded(timestamp_orderbook_update_map, data, timestamp)
                 IN  /\ raised = "none"
                     /\ IF timestamp > ending_timestamp
                        THEN /\ files' = Append(files,
                                    SavedFile(Put(map, -1, order_book'), timestamp, FALSE))
                             /\ ResetStart(subscription, <<"window_end">>)
                        ELSE /\ timestamp_orderbook_update_map' = map
                             /\ UNCHANGED <<are_new_messages_to_drop, tasks, files,
                                            calls, resets>>

\* on_t_book_update; `raised` is the exception that ended the handler, if any
on_t_book_update(subscription, data, timestamp, raised) ==
    IF are_new_messages_to_drop
    THEN /\ raised = "none"
         /\ UNCHANGED <<order_book, timestamp_orderbook_update_map, last_checksum_timestamp,
                        starting_timestamp, ending_timestamp, are_new_messages_to_drop,
                        tasks, files, calls, resets>>
    ELSE /\ order_book' = update(order_book, data)
         /\ UNCHANGED <<last_checksum_timestamp, starting_timestamp, ending_timestamp>>
         /\ IF RecordRaises(timestamp_orderbook_update_map, timestamp)
            THEN /\ raised = "KeyError"
                 /\ UNCHANGED <<timestamp_orderbook_update_map, are_new_messages_to_drop,
                                tasks, files, calls, resets>>
            ELSE LET map == Recorded(timestamp_orderbook_update_map, data, timestamp)
                 IN  /\ raised = "none"
                     /\ IF timestamp >= ending_timestamp
                        THEN /\ files' = Append(files,
                                    SavedFile(Put(map, -1, order_book'), timestamp, FALSE))
                             /\ ResetStart(subscription, <<"window_end">>)
                        ELSE /\ timestamp_orderbook_update_map' = map
                             /\ UNCHANGED <<are_new_messages_to_drop, tasks, files,
                                            calls, resets>>

\* on_checksum, without the is_verifiable() test of line 179
on_checksum_unguarded(subscription, value, timestamp, raised) ==
    /\ UNCHANGED <<order_book, starting_timestamp, ending_timestamp>>
    /\ LET result == verify(order_book, value)
       IN  IF result = "AssertionError"
           THEN /\ raised = "AssertionError"
                /\ UNCHANGED <<timestamp_orderbook_update_map, last_checksum_timestamp,
                               are_new_messages_to_drop, tasks, files, calls, resets>>
           ELSE IF result = "False"
           THEN /\ raised = "none"
                /\ files' = Append(files,
                       SavedFile(get_orderbook_updates_until(
                                     timestamp_orderbook_update_map,
                                     last_checksum_timestamp),
                                 last_checksum_timestamp, TRUE))
                /\ ResetStart(subscription, <<"divergence">>)
                /\ UNCHANGED last_checksum_timestamp
           ELSE /\ raised = "none"
                /\ last_checksum_timestamp' = timestamp
                /\ UNCHANGED <<timestamp_orderbook_update_map, are_new_messages_to_drop,
                               tasks, files, calls, resets>>

\* on_checksum
on_checksum(subscription, value, timestamp, raised) ==
    /\ UNCHANGED <<order_book, starting_timestamp, ending_timestamp>>
    /\ IF is_verifiable(order_book)
       THEN LET result == verify(order_book, value)
            IN  IF result = "AssertionError"
                THEN /\ raised = "AssertionError"
                     /\ UNCHANGED <<timestamp_orderbook_update_map, last_checksum_timestamp,
                                    are_new_messages_to_drop, tasks, files, calls, resets>>
                ELSE IF result = "False"
                THEN /\ raised = "none"
                     /\ files' = Append(files,
                            SavedFile(get_orderbook_updates_until(
                                          timestamp_orderbook_update_map,
                                          last_checksum_timestamp),
                                      last_checksum_timestamp, TRUE))
                     /\ ResetStart(subscription, <<"divergence">>)
                     /\ UNCHANGED last_checksum_timestamp
                ELSE /\ raised = "none"
                     /\ last_checksum_timestamp' = timestamp
                     /\ UNCHANGED <<timestamp_orderbook_update_map, are_new_messages_to_drop,
                                    tasks, files, calls, resets>>
       ELSE /\ raised = "none"
            /\ UNCHANGED <<timestamp_orderbook_update_map, last_checksum_timestamp,
                           are_new_messages_to_drop, tasks, files, calls, resets>>

\* the handlers registered with bfx.wss.on, by event name
Dispatch(out, raised) ==
    IF out = <<>>
    THEN /\ raised = "none"
         /\ UNCHANGED <<order_book, timestamp_orderbook_update_map, last_checksum_timestamp,
                        starting_timestamp, ending_timestamp, are_new_messages_to_drop,
                        tasks, files, calls, resets>>
    ELSE LET e == out[1]
         IN  IF e.event = "t_book_snapshot"
             THEN raised = "none" /\ on_t_book_snapshot(e.args[1], e.args[2], e.args[3].v)
             ELSE IF e.event = "t_book_update"
             THEN on_t_book_update(e.args[1], BookData(e.args[2]), e.args[3].v, raised)
             ELSE on_checksum(e.args[1], e.args[2], e.args[3].v, raised)

-----------------------------------------------------------------------------
(* The transport (bfx.wss), as the recording script sees it.               *)
(*   chan = "closed"   before the connection is open                       *)
(*          "pending"  a subscribe was accepted, its snapshot is due       *)
(*          "live"     the snapshot was delivered, updates and checksums   *)
(*                     of subscription cur_sub are delivered               *)
(*          "none"     no subscription                                     *)
(* Frames of a subscription keep coming between the unsubscribe request    *)
(* and its acknowledgment; the awaits of _reset_connection return when     *)
(* the request is acknowledged, and frames already received may be         *)
(* handled before the coroutine runs again.                                *)

\* the unsubscribe of sub_id is acknowledged
AfterUnsubscribeAck(state, sub_id) ==
    IF state.chan = "live" /\ state.cur_sub = sub_id
    THEN [state EXCEPT !.chan = "none"]
    ELSE state

\* a subscribe request: a new subscription, unless the channel is subscribed
AfterSubscribeRequest(state) ==
    IF state.chan \in {"pending", "live"}
    THEN state
    ELSE [chan |-> "pending", cur_sub |-> state.next_sub, next_sub |-> state.next_sub + 1]

Transport == [chan |-> chan, cur_sub |-> cur_sub, next_sub |-> next_sub]

SetTransport(state) ==
    /\ chan' = state.chan
    /\ cur_sub' = state.cur_sub
    /\ next_sub' = state.next_sub

-----------------------------------------------------------------------------
(* Frames of the book channel.                                             *)

LevelField(level) == L(<<N(level.price), N(level.count), N(level.amount)>>)

UpdateFrame(level, timestamp) == <<LevelField(level), N(timestamp)>>

SnapshotFrame(levels, timestamp) ==
    << L([i \in 1..Len(levels) |-> LevelField(levels[i])]), N(timestamp) >>

ChecksumFrame(value, timestamp) == <<S(_CHECKSUM), N(value), N(timestamp)>>

TopBid == 100    \* best bid of a snapshot; the best ask is TopBid + 1

\* the snapshot of a book of n levels a side, best first, bid and ask
\* alternating: bids TopBid, TopBid-1, ..., asks TopBid+1, TopBid+2, ...,
\* each of count 1 and amount +1 / -1
SnapshotLevels(n) ==
    [k \in 1..(2 * n) |->
        IF k % 2 = 1
        THEN Level(TopBid - ((k - 1) \div 2), 1, 1)
        ELSE Level(TopBid + (k \div 2), 1, -1)]

\* the checksum of the wire, from the four bytes
ToWire(word) == << word[1] * 256 + word[2], word[3] * 256 + word[4] >>

BadWire == <<0, 1>>

\* updates the venue may send in Spec
UpdateLevels ==
    { Level(TopBid, 0, 1),              \* the best bid is gone
      Level(TopBid - BookLen, 1, 1) }   \* a bid below the snapshot's last

\* how far the timestamp of an update may be ahead of the previous frame's
UpdateSteps == {0, 1, RecordingMillis}

\* values the venue may declare: the one that matches the replica, when it
\* is deep enough, and one that does not
WireValues ==
    IF is_verifiable(order_book)
    THEN {ToWire(LocalChecksum(order_book)), BadWire}
    ELSE {BadWire}

NoFrame == [subscription |-> BookSubscription(0), stream |-> <<>>, raised |-> "none"]

Outcomes == {"none", "KeyError", "AssertionError"}

-----------------------------------------------------------------------------
(* Spec: the recording script driven by the transport.                     *)

ControlInit ==
    /\ order_book = EmptyBook
    /\ timestamp_orderbook_update_map = EmptyMap
    /\ last_checksum_timestamp = 0
    /\ starting_timestamp = 0
    /\ ending_timestamp = 0
    /\ are_new_messages_to_drop = FALSE
    /\ tasks = <<>>
    /\ files = <<>>
    /\ calls = <<>>
    /\ resets = 0

Init ==
    /\ ControlInit
    /\ chan = "closed"
    /\ cur_sub = 0
    /\ next_sub = 1
    /\ now = 1
    /\ frames = 0
    /\ ev = NoFrame
    /\ emitted = <<>>
    /\ expected = EmptyBook

\* on_open: the first subscribe
OnOpen ==
    /\ chan = "closed"
    /\ SetTransport(AfterSubscribeRequest([Transport EXCEPT !.chan = "none"]))
    /\ calls' = Append(calls, "subscribe")
    /\ UNCHANGED <<order_book, timestamp_orderbook_update_map, last_checksum_timestamp,
                   starting_timestamp, ending_timestamp, are_new_messages_to_drop,
                   tasks, files, resets, now, frames, ev, emitted, expected>>

\* one frame of the book subscription goes through handle() and the handler
\* registered for the event it emits.  MaxFrames bounds the updates and the
\* checksums of a behaviour; the snapshot due after a subscribe is always
\* delivered.
Deliver(stream, timestamp) ==
    /\ frames' = frames + 1
    /\ now' = timestamp
    /\ emitted' = handle(BookSubscription(cur_sub), stream)
    /\ \E raised \in Outcomes :
        /\ Dispatch(emitted', raised)
        /\ ev' = [subscription |-> BookSubscription(cur_sub), stream |-> stream,
                  raised |-> raised]

DeliverSnapshot ==
    /\ chan = "pending"
    /\ Deliver(SnapshotFrame(SnapshotLevels(BookLen), now + 1), now + 1)
    /\ chan' = "live"
    /\ expected' = UpdateAll(EmptyBook,
                             parse_each("TradingPairBook",
                                        SnapshotFrame(SnapshotLevels(BookLen), now + 1)[1]))
    /\ UNCHANGED <<cur_sub, next_sub>>

DeliverUpdate ==
    /\ chan = "live"
    /\ frames < MaxFrames
    /\ \E level \in UpdateLevels, step \in UpdateSteps :
        /\ Deliver(UpdateFrame(level, now + step), now + step)
        /\ expected' = update(expected, level)
    /\ UNCHANGED <<chan, cur_sub, next_sub>>

DeliverChecksum ==
    /\ chan = "live"
    /\ frames < MaxFrames
    /\ \E value \in WireValues : Deliver(ChecksumFrame(value, now), now)
    /\ UNCHANGED <<chan, cur_sub, next_sub, expected>>

\* _reset_connection, lines 210-212: the unsubscribe is acknowledged, the
\* coroutine prints and sends the subscribe request
AfterUnsubscribe ==
    \E i \in 1..Len(tasks) :
        /\ tasks[i].pc = "unsubscribe"
        /\ tasks' = [tasks EXCEPT ![i].pc = "subscribe"]
        /\ SetTransport(AfterSubscribeRequest(AfterUnsubscribeAck(Transport, tasks[i].sub_id)))
        /\ calls' = Append(calls, "subscribe")
        /\ UNCHANGED <<order_book, timestamp_orderbook_update_map, last_checksum_timestamp,
                       starting_timestamp, ending_timestamp, are_new_messages_to_drop,
                       files, resets, now, frames, ev, emitted, expected>>

\* _reset_connection, lines 212-213: the subscribe is acknowledged, the
\* coroutine clears the book and ends
AfterSubscribe ==
    \E i \in 1..Len(tasks) :
        /\ tasks[i].pc = "subscribe"
        /\ tasks' = SubSeq(tasks, 1, i - 1) \o SubSeq(tasks, i + 1, Len(tasks))
        /\ order_book' = clear(order_book)
        /\ calls' = Append(calls, "book.clear")
        /\ UNCHANGED <<timestamp_orderbook_update_map, last_checksum_timestamp,
                       starting_timestamp, ending_timestamp, are_new_messages_to_drop,
                       chan, cur_sub, next_sub, files, resets, now, frames, ev, emitted,
                       expected>>

Next ==
    \/ OnOpen
    \/ DeliverSnapshot
    \/ DeliverUpdate
    \/ DeliverChecksum
    \/ AfterUnsubscribe
    \/ AfterSubscribe

Spec == Init /\ [][Next]_vars

\* the snapshot of a new subscription arrives: the step of DeliverSnapshot,
\* told by the transport's state alone.  DeliverSnapshot is the only action
\* of Next that takes chan from "pending" to "live", and it is enabled
\* whenever chan is "pending".
SnapshotArrives == chan = "pending" /\ chan' = "live"

\* Spec, with a transport that eventually acknowledges every unsubscribe
\* and subscribe request (each await of _reset_connection returns) and
\* eventually delivers the snapshot of a new subscription
SpecLive ==
    /\ Init
    /\ [][Next]_vars
    /\ WF_vars(AfterUnsubscribe)
    /\ WF_vars(AfterSubscribe)
    /\ WF_chan(SnapshotArrives)

-----------------------------------------------------------------------------
(* SpecBook: OrderBook alone.  The book starts as some sequence of         *)
(* update() calls left it, and update() is called with arbitrary levels.   *)

\* nb bids TopBid, TopBid-1, ... then na asks TopBid+1, TopBid+2, ...,
\* each of count 1 and amount +1 / -1
Levels(nb, na) ==
    [k \in 1..(nb + na) |->
        IF k <= nb
        THEN Level(TopBid - (k - 1), 1, 1)
        ELSE Level(TopBid + (k - nb), 1, -1)]

Reverse(seq) == [i \in 1..Len(seq) |-> seq[Len(seq) + 1 - i]]

\* the book after update() was called with each of the levels in turn
BookOf(levels) ==
    UpdateAll(EmptyBook,
              parse_each("TradingPairBook", L([i \in 1..Len(levels) |-> LevelField(levels[i])])))

InitialBooks ==
    { EmptyBook,
      BookOf(Levels(VerifyDepth - 1, VerifyDepth)),
      BookOf(Levels(VerifyDepth, VerifyDepth)),
      BookOf(Levels(VerifyDepth + 1, VerifyDepth + 1)),
      BookOf(Reverse(Levels(VerifyDepth + 1, VerifyDepth + 1))) }

\* the levels update() is called with
ApplyLevels ==
    { Level(TopBid, 0, 1),                    \* remove the best bid
      Level(TopBid - VerifyDepth, 0, 1),      \* remove the 26th bid
      Level(TopBid, 2, 3),                    \* the best bid with a new count and amount
      Level(TopBid - 12, 3, 1),               \* a bid with a new count only
      Level(TopBid + 1, 0, -1),               \* remove the best ask
      Level(TopBid + VerifyDepth + 2, 1, -1), \* a new ask behind the 26th
      Level(TopBid, 0, -1),                   \* remove, on the ask side, the price of the best bid
      Level(TopBid + VerifyDepth + 3, 1, 0),  \* amount 0: a new ask behind the others
      Level(TopBid, -1, 1) }                  \* a negative count, at the price of the best bid

InitBook ==
    /\ order_book \in InitialBooks
    /\ expected = order_book
    /\ timestamp_orderbook_update_map = EmptyMap
    /\ last_checksum_timestamp = 0
    /\ starting_timestamp = 0
    /\ ending_timestamp = 0
    /\ are_new_messages_to_drop = FALSE
    /\ tasks = <<>>
    /\ files = <<>>
    /\ calls = <<>>
    /\ resets = 0
    /\ chan = "closed"
    /\ cur_sub = 0
    /\ next_sub = 1
    /\ now = 1
    /\ frames = 0
    /\ ev = NoFrame
    /\ emitted = <<>>

\* order_book.update(data)
Apply ==
    /\ frames < MaxApplies
    /\ frames' = frames + 1
    /\ \E level \in ApplyLevels :
        /\ order_book' = update(order_book, level)
        /\ ev' = [subscription |-> BookSubscription(0), stream |-> UpdateFrame(level, now),
                  raised |-> "none"]
    /\ expected' = order_book
    /\ UNCHANGED <<timestamp_orderbook_update_map, last_checksum_timestamp,
                   starting_timestamp, ending_timestamp, are_new_messages_to_drop,
                   tasks, chan, cur_sub, next_sub, files, calls, now, emitted, resets>>

NextBook == Apply

SpecBook == InitBook /\ [][NextBook]_vars

-----------------------------------------------------------------------------
(* SpecHandle: PublicChannelsHandler.handle on the frames of every         *)
(* channel, for subscriptions of every channel, symbol, precision and key. *)

Channels == {"ticker", "trades", "book", "candles", "status", "orders"}

Symbols ==
    { SYMBOL, <<"f", "U", "S", "D">>, <<"x", "A", "B", "C">>, <<>> }

Precisions == {"P0", "R0"}

StatusKeys ==
    { <<"d", "e", "r", "i", "v", ":", "t", "B", "T", "C", "F", "0">>,
      <<"l", "i", "q", ":", "g", "l", "o", "b", "a", "l">>,
      <<"t", "r", "a", "d", "e", ":", "1", "m">> }

Subscriptions ==
    { [channel |-> c, symbol |-> s, prec |-> p, key |-> k, sub_id |-> 1] :
        c \in Channels, s \in Symbols, p \in Precisions, k \in StatusKeys }

\* declared checksums of the wire, as <<hi, lo>>: 2^32 - 2, 0, 2^31, -1,
\* -2^31, -2^31 - 1 and 2^32 + 5
DeclaredValues ==
    { <<65535, 65534>>, <<0, 0>>, <<32768, 0>>, <<-1, 65535>>, <<-32768, 0>>,
      <<-32769, 65535>>, <<65536, 5>> }

Flat == L(<<N(1), N(2), N(3)>>)

Nested == L(<<Flat, L(<<N(4), N(5), N(6)>>)>>)

\* the frames the venue sends on a channel
Streams(channel) ==
    IF channel = "ticker" THEN { <<Flat>> }
    ELSE IF channel = "trades"
    THEN { <<S(tag), Flat>> : tag \in {"te", "tu", "fte", "ftu"} } \cup { <<Nested>> }
    ELSE IF channel = "book"
    THEN { <<Flat, N(7)>>, <<Nested, N(7)>> }
             \cup { ChecksumFrame(value, 7) : value \in DeclaredValues }
    ELSE IF channel = "candles" THEN { <<Flat>>, <<Nested>> }
    ELSE IF channel = "status" THEN { <<Flat>>, <<L(<<Flat>>)>> }
    ELSE { <<Flat>>, <<S("te"), Flat>> }

InitHandle ==
    /\ ControlInit
    /\ chan = "closed"
    /\ cur_sub = 0
    /\ next_sub = 1
    /\ now = 1
    /\ frames = 0
    /\ ev = NoFrame
    /\ emitted = <<>>
    /\ expected = EmptyBook

\* handler.handle(subscription, stream)
HandleFrame ==
    /\ \E subscription \in Subscriptions :
        \E stream \in Streams(subscription.channel) :
            /\ emitted' = handle(subscription, stream)
            /\ ev' = [subscription |-> subscription, stream |-> stream, raised |-> "none"]
    /\ UNCHANGED <<order_book, timestamp_orderbook_update_map, last_checksum_timestamp,
                   starting_timestamp, ending_timestamp, are_new_messages_to_drop,
                   tasks, chan, cur_sub, next_sub, files, calls, now, frames, expected,
                   resets>>

NextHandle == HandleFrame

SpecHandle == InitHandle /\ [][NextHandle]_vars

-----------------------------------------------------------------------------
(* Properties of OrderBook, under SpecBook.  After an Apply, ev holds the  *)
(* level update() was called with, expected the book it was called on and  *)
(* order_book the book it left.                                            *)

LastLevel == BookData(parse("TradingPairBook", ev.stream[1].v))

SideOf(level) == IF level.amount > 0 THEN "bids" ELSE "asks"

OtherSide(side) == IF side = "bids" THEN "asks" ELSE "bids"

Entries(d) == {d[i] : i \in 1..Len(d)}

\* how many prices of the side are better than the price: higher for a
\* bid, lower for an ask
Better(book, side, price) ==
    IF side = "bids"
    THEN Cardinality({k \in Keys(book.bids) : k > price})
    ELSE Cardinality({k \in Keys(book.asks) : k < price})

\* C5: after update() with count = 0 the price is absent from the side the
\* amount's sign selects, the other levels are untouched, and nothing
\* changes at all when the price was absent; after update() with count > 0
\* the side holds exactly one entry for the price, carrying that count and
\* amount, next to the other levels; the keys of a side are always unique.
C5UpsertRemove ==
    frames > 0 =>
        LET level  == LastLevel
            side   == SideOf(level)
            before == expected[side]
            after  == order_book[side]
        IN  /\ order_book[OtherSide(side)] = expected[OtherSide(side)]
            /\ Cardinality(Keys(order_book.bids)) = Len(order_book.bids)
            /\ Cardinality(Keys(order_book.asks)) = Len(order_book.asks)
            /\ level.count = 0 =>
                /\ level.price \notin Keys(after)
                /\ Entries(after) = {e \in Entries(before) : e.key # level.price}
                /\ level.price \notin Keys(before) => after = before
            /\ level.count > 0 =>
                /\ Cardinality({i \in 1..Len(after) : after[i].key = level.price}) = 1
                /\ \A i \in 1..Len(after) :
                      after[i].key = level.price =>
                          after[i].val = [p |-> level.price, c |-> level.count,
                                          a |-> level.amount]
                /\ {e \in Entries(after) : e.key # level.price}
                       = {e \in Entries(before) : e.key # level.price}

\* C5 witness: two calls were made, the first replaced the level of a
\* price that was present, the second removed it
C5Witness ==
    /\ frames = 2
    /\ LastLevel.count = 0
    /\ LastLevel.price \in Keys(expected[SideOf(LastLevel)])
    /\ LastLevel.price \notin Keys(order_book[SideOf(LastLevel)])
    /\ \E i \in 1..Len(expected.bids) :
          expected.bids[i].key = LastLevel.price /\ expected.bids[i].val.c = 2

\* a declared value other than c
Differs(c) == << c[1], c[2], c[3], (c[4] + 1) % 256 >>

\* the book of the 25 best levels of each side only, every count replaced,
\* the worst level inserted first
TopOnly(book) ==
    LET entry(t) == [key |-> t[1], val |-> [p |-> t[1], c |-> t[2] + 5, a |-> t[3]]]
        top(s)   == [i \in 1..VerifyDepth |-> entry(s[VerifyDepth + 1 - i])]
    IN  [bids |-> top(SortedBids(book)), asks |-> top(SortedAsks(book))]

RemovedFromVerifiable ==
    /\ frames > 0
    /\ LastLevel.count = 0
    /\ is_verifiable(expected)
    /\ is_verifiable(order_book)
    /\ LastLevel.price \in Keys(expected[SideOf(LastLevel)])

C8Verifiable ==
    /\ is_verifiable(order_book) <=>
           /\ Cardinality(Keys(order_book.bids)) >= 25
           /\ Cardinality(Keys(order_book.asks)) >= 25
    /\ (verify(order_book, AllOnes) = "AssertionError") <=> ~is_verifiable(order_book)

\* C8 witness: update() took the 25th bid away while the asks stayed 25 or
\* more, and verify() raises
C8Witness ==
    /\ frames > 0
    /\ Len(expected.bids) = VerifyDepth
    /\ Len(order_book.bids) = VerifyDepth - 1
    /\ Len(order_book.asks) >= VerifyDepth
    /\ ~is_verifiable(order_book)
    /\ verify(order_book, AllOnes) = "AssertionError"

-----------------------------------------------------------------------------
(* Properties of PublicChannelsHandler.handle, under SpecHandle.  After a  *)
(* HandleFrame, ev holds the subscription and the frame, emitted the       *)
(* events handle() emitted for them.                                       *)

Handled == ev.stream # <<>>

\* the str starts with one of the letters
FirstIn(str, letters) == Len(str) > 0 /\ str[1] \in letters

\* the symbol (ticker, trades, book) or the key (status) of the
\* subscription has no recognized prefix, or its channel is not known
Unrecognized(subscription) ==
    \/ /\ subscription.channel \in {"ticker", "trades", "book"}
       /\ ~FirstIn(subscription.symbol, {"t", "f"})
    \/ /\ subscription.channel = "status"
       /\ ~( /\ Len(subscription.key) >= 6
             /\ SubSeq(subscription.key, 1, 6) = <<"d", "e", "r", "i", "v", ":">> )
       /\ ~( /\ Len(subscription.key) >= 4
             /\ SubSeq(subscription.key, 1, 4) = <<"l", "i", "q", ":">> )
    \/ subscription.channel \notin {"ticker", "trades", "book", "candles", "status"}

\* a frame of the book channel whose first field is the checksum token
IsChecksumFrame(subscription, stream) ==
    /\ subscription.channel = "book"
    /\ stream[1].kind = "str"
    /\ stream[1].v = "cs"

\* C9 (amended): handle() emits at most one event; it emits none when the
\* symbol or key has no recognized prefix or the channel is unknown, except
\* that a frame of the book channel whose first field is the checksum token
\* emits one checksum event whatever the symbol of the subscription.
C9AtMostOneEvent ==
    /\ Len(emitted) <= 1
    /\ Handled =>
        IF IsChecksumFrame(ev.subscription, ev.stream)
        THEN /\ Len(emitted) = 1
             /\ emitted[1].event = "checksum"
        ELSE Unrecognized(ev.subscription) => emitted = <<>>

\* C9 witness: an execution frame of the trades channel, for a symbol that
\* starts with neither t nor f, was handled and nothing was emitted
C9Witness ==
    /\ Handled
    /\ ev.subscription.channel = "trades"
    /\ ev.subscription.symbol = <<"x", "A", "B", "C">>
    /\ ev.stream[1].kind = "str"
    /\ emitted = <<>>

\* C9 as claimed: at most one event, and none whenever the symbol or key
\* has no recognized prefix or the channel is unknown
C9Original ==
    /\ Len(emitted) <= 1
    /\ (Handled /\ Unrecognized(ev.subscription)) => emitted = <<>>

\* a frame of the trades channel whose first field is the execution tag
IsExecution(tag) ==
    /\ Handled
    /\ ev.subscription.channel = "trades"
    /\ ev.stream[1].kind = "str"
    /\ ev.stream[1].v = tag

\* the one event emitted has the name, and carries the subscription and
\* the second field of the frame decoded as the type
EmittedIs(name, type) ==
    /\ Len(emitted) = 1
    /\ emitted[1].event = name
    /\ emitted[1].args = <<ev.subscription, [type |-> type, fields |-> ev.stream[2].v]>>

\* C10 (amended): for an execution frame of the trades channel the tag
\* selects the name of the event (te t_trade_execution, tu
\* t_trade_execution_update, fte f_trade_execution, ftu
\* f_trade_execution_update) and the prefix of the symbol selects the
\* decoder: ["te", payload] emits t_trade_execution decoded as a
\* trading-pair trade for a symbol in t, and t_trade_execution decoded as
\* a funding-currency trade for a symbol in f.
C10TagNamesEvent ==
    \A tag \in {"te", "tu", "fte", "ftu"} :
        IsExecution(tag) =>
            LET name == IF tag = "te" THEN "t_trade_execution"
                        ELSE IF tag = "tu" THEN "t_trade_execution_update"
                        ELSE IF tag = "fte" THEN "f_trade_execution"
                        ELSE "f_trade_execution_update"
            IN  /\ FirstIn(ev.subscription.symbol, {"t"}) => EmittedIs(name, "TradingPairTrade")
                /\ FirstIn(ev.subscription.symbol, {"f"}) => EmittedIs(name, "FundingCurrencyTrade")

\* C10 witness: ["te", payload] was handled for a symbol in f
C10Witness ==
    /\ IsExecution("te")
    /\ FirstIn(ev.subscription.symbol, {"f"})
    /\ EmittedIs("t_trade_execution", "FundingCurrencyTrade")

\* C10 as claimed: ["te", payload] emits t_trade_execution decoded as a
\* trading-pair trade for a symbol in t, and f_trade_execution decoded as a
\* funding-currency trade for a symbol in f
C10Original ==
    IsExecution("te") =>
        /\ FirstIn(ev.subscription.symbol, {"t"}) =>
               EmittedIs("t_trade_execution", "TradingPairTrade")
        /\ FirstIn(ev.subscription.symbol, {"f"}) =>
               EmittedIs("f_trade_execution", "FundingCurrencyTrade")

-----------------------------------------------------------------------------
(* Properties of the recording script, under Spec.                         *)

\* the levels of a book, whatever the order they were inserted in
Content(book) == [bids |-> Entries(book.bids), asks |-> Entries(book.asks)]

Logged(call) == \E i \in 1..Len(calls) : calls[i] = call

\* the part of the log after the latest snapshot handled
SinceSnapshot ==
    LET marks == {i \in 1..Len(calls) : calls[i] = "snapshot"}
        last  == IF marks = {} THEN 0 ELSE CHOOSE i \in marks : \A j \in marks : j <= i
    IN  SubSeq(calls, last + 1, Len(calls))

Count(log, call) == Cardinality({i \in 1..Len(log) : log[i] = call})

\* a snapshot was handled, incoming updates are not dropped and no
\* _reset_connection is in flight
Streaming ==
    /\ Logged("snapshot")
    /\ ~are_new_messages_to_drop
    /\ tasks = <<>>

\* C1: whenever the script is streaming, the book holds the levels of the
\* latest snapshot followed by the updates delivered since, applied in
\* delivery order to an empty book.
C1ReplicaFollowsStream ==
    Streaming => Content(order_book) = Content(expected)

\* the frame handled by the step is a checksum frame
ChecksumStep ==
    /\ frames' = frames + 1
    /\ ev'.stream # <<>>
    /\ ev'.stream[1].kind = "str"

ProgramState ==
    << order_book, timestamp_orderbook_update_map, last_checksum_timestamp,
       starting_timestamp, ending_timestamp, are_new_messages_to_drop, tasks, files >>

\* what a checksum frame with the declared value and timestamp does to the
\* state of the script
ChecksumEffect(value, timestamp) ==
    LET verifiable == /\ Cardinality(Keys(order_book.bids)) >= 25
                      /\ Cardinality(Keys(order_book.asks)) >= 25
        differs    == IF verifiable THEN LocalChecksum(order_book) # value ELSE FALSE
        started    == Len(tasks') = Len(tasks) + 1
    IN  /\ ev'.raised = "none"
        /\ started <=> (verifiable /\ differs)
        /\ started =>
            /\ files' = Append(files,
                   [timestamp   |-> last_checksum_timestamp,
                    interrupted |-> TRUE,
                    content     |-> [k \in {x \in DOMAIN timestamp_orderbook_update_map :
                                                x <= last_checksum_timestamp}
                                        |-> timestamp_orderbook_update_map[k]]])
            /\ tasks' = Append(tasks, [pc |-> "unsubscribe", sub_id |-> ev'.subscription.sub_id])
            /\ calls' = calls \o <<"divergence", "journal.clear", "unsubscribe">>
            /\ are_new_messages_to_drop'
            /\ timestamp_orderbook_update_map' = <<>>
            /\ UNCHANGED <<order_book, last_checksum_timestamp, starting_timestamp,
                           ending_timestamp>>
        /\ ~verifiable => UNCHANGED <<ProgramState, calls>>
        /\ (verifiable /\ ~differs) =>
            /\ last_checksum_timestamp' = timestamp
            /\ UNCHANGED <<order_book, timestamp_orderbook_update_map, starting_timestamp,
                           ending_timestamp, are_new_messages_to_drop, tasks, files, calls>>

\* C2: a checksum frame starts a resync (the journal up to the last
\* verified timestamp is written as interrupted, the journal cleared, the
\* drop flag set and the unsubscribe requested) exactly when each side of
\* the book holds 25 levels or more and the checksum of the book differs
\* from the declared value; when the book is not verifiable the frame
\* changes nothing and raises nothing; when the checksums agree the only
\* change is that last_checksum_timestamp becomes the frame's timestamp.
C2ChecksumDecides ==
    [][ ChecksumStep => ChecksumEffect(Mask32(ev'.stream[2].v), ev'.stream[3].v) ]_vars

\* C2 witness: the frame handled last was a checksum frame, and it started
\* a resync: an interrupted file was written and the unsubscribe requested
C2Witness ==
    /\ ev.stream # <<>>
    /\ ev.stream[1].kind = "str"
    /\ Len(files) > 0
    /\ files[Len(files)].interrupted
    /\ Len(tasks) > 0
    /\ tasks[Len(tasks)].pc = "unsubscribe"
    /\ Len(calls) > 0
    /\ calls[Len(calls)] = "unsubscribe"
    /\ are_new_messages_to_drop

\* the part of the log from the first divergence detected after the latest
\* snapshot
SinceDivergence ==
    LET log   == SinceSnapshot
        marks == {i \in 1..Len(log) : log[i] = "divergence"}
    IN  IF marks = {} THEN <<>>
        ELSE SubSeq(log, CHOOSE i \in marks : \A j \in marks : i <= j, Len(log))

\* C3: from the detection of a divergence until the next snapshot is
\* handled, at most one unsubscribe and at most one subscribe are requested,
\* whatever checksum frames of the old subscription are delivered while the
\* round-trips of the resync are pending.
C3OneRoundTrip ==
    /\ Count(SinceDivergence, "unsubscribe") <= 1
    /\ Count(SinceDivergence, "subscribe") <= 1

\* the book was cleared by a resync that a checksum mismatch started, and
\* no snapshot was handled since
ClearedAfterDivergence ==
    /\ Count(SinceSnapshot, "book.clear") > 0
    /\ Logged("divergence")

\* C4: from the clear of a resync that a checksum mismatch started until
\* the next snapshot is handled the book is empty on both sides: no update
\* puts a level into it.
C4EmptyUntilSnapshot ==
    ClearedAfterDivergence => order_book = EmptyBook

-----------------------------------------------------------------------------
(* Further properties of PublicChannelsHandler.handle, under SpecHandle.   *)

\* C11: the checksum event emitted for a checksum frame carries four bytes,
\* each in 0..255, whose value v is the declared value modulo 2^32: the low
\* 16 bits are those declared, and the high 16 bits differ from the
\* declared high part by a multiple of 2^16; so 0 <= v < 2^32 also for a
\* negative declared value.
C11MaskedValue ==
    (Handled /\ IsChecksumFrame(ev.subscription, ev.stream)) =>
        /\ Len(emitted) = 1
        /\ emitted[1].event = "checksum"
        /\ LET v     == emitted[1].args[2]
               wire  == ev.stream[2].v
               hi    == (v[1] * 256) + v[2]
               lo    == (v[3] * 256) + v[4]
           IN  /\ Len(v) = 4
               /\ \A i \in 1..4 : v[i] \in 0..255
               /\ lo = wire[2]
               /\ \E k \in -2..2 : hi = wire[1] + (k * 65536)

\* C11 witness: the declared value -1 was handled and the event carries
\* 0xFFFFFFFF
C11Witness ==
    /\ Handled
    /\ IsChecksumFrame(ev.subscription, ev.stream)
    /\ ev.stream[2].v = <<-1, 65535>>
    /\ Len(emitted) = 1
    /\ emitted[1].args[2] = <<255, 255, 255, 255>>

-----------------------------------------------------------------------------
(* Properties of the journal and of the records written, under Spec.       *)

\* the step writes a record: a window is closed
ClosingStep == Len(files') = Len(files) + 1

\* the record the step writes
Written == files'[Len(files')]

\* the frame the step handles is a checksum frame / an update frame
ChecksumHandled == ev'.stream # <<>> /\ ev'.stream[1].kind = "str"

UpdateHandled ==
    /\ ev'.stream # <<>>
    /\ ev'.stream[1].kind = "list"
    /\ ~all_lists(ev'.stream[1])

\* C12: a step that closes a window, by its end or by a divergence, writes
\* a record that holds a copy of the book under the key -1, and leaves the
\* journal empty.
C12SentinelCopy ==
    [][ ClosingStep =>
            /\ -1 \in DOMAIN Written.content
            /\ Written.content[-1] = order_book'
            /\ timestamp_orderbook_update_map' = <<>> ]_vars

LastFile == files[Len(files)]

-----------------------------------------------------------------------------
(* Properties of _reset_connection and of the drop flag, under Spec.       *)

\* the latest index below i at which the log holds the call, 0 if none
LastBefore(i, call) ==
    LET marks == {j \in 1..(i - 1) : calls[j] = call}
    IN  IF marks = {} THEN 0 ELSE CHOOSE j \in marks : \A k \in marks : k <= j

\* the log holds the call strictly between the places lo and hi
Between(lo, hi, call) == \E j \in (lo + 1)..(hi - 1) : calls[j] = call

\* C14: a resync requests the unsubscribe, then clears the book and the
\* journal, and only then requests the subscribe: in the log every
\* subscribe other than the first has a book.clear and a journal.clear
\* between it and the unsubscribe before it, and the book is empty while
\* that subscribe is the latest call.
C14ClearBeforeSubscribe ==
    /\ \A i \in 2..Len(calls) :
          calls[i] = "subscribe" =>
              /\ LastBefore(i, "unsubscribe") > 0
              /\ Between(LastBefore(i, "unsubscribe"), i, "book.clear")
              /\ Between(LastBefore(i, "unsubscribe"), i, "journal.clear")
    /\ (Len(calls) > 1 /\ calls[Len(calls)] = "subscribe") => order_book = EmptyBook

\* the step handles a frame
FrameStep == frames' = frames + 1

\* the step handles a snapshot
SnapshotHandled ==
    /\ FrameStep
    /\ Len(emitted') = 1
    /\ emitted'[1].event = "t_book_snapshot"

\* C15: a step that starts _reset_connection sets are_new_messages_to_drop;
\* only a step that handles a snapshot clears it; and an update handled
\* while it is set changes neither the book, the journal, the bounds of the
\* window, last_checksum_timestamp, the records written nor the resyncs in
\* flight, and raises nothing.
C15DropUntilSnapshot ==
    [][ /\ Len(tasks') > Len(tasks) => are_new_messages_to_drop'
        /\ (are_new_messages_to_drop /\ ~are_new_messages_to_drop') => SnapshotHandled
        /\ (are_new_messages_to_drop /\ FrameStep /\ UpdateHandled) =>
              /\ ev'.raised = "none"
              /\ UNCHANGED << order_book, timestamp_orderbook_update_map,
                              starting_timestamp, ending_timestamp,
                              last_checksum_timestamp, files, tasks, calls, resets,
                              are_new_messages_to_drop >> ]_vars

\* C15 witness: the frame handled last was an update short of the end of
\* the window, the flag is set, and the book does not hold the update
C15Witness ==
    /\ are_new_messages_to_drop
    /\ ev.stream # <<>>
    /\ ev.stream[1].kind = "list"
    /\ ~all_lists(ev.stream[1])
    /\ ev.stream[2].v < ending_timestamp
    /\ Content(order_book) # Content(expected)
    /\ order_book # EmptyBook

-----------------------------------------------------------------------------
(* Properties of the recording window, under Spec.                         *)

\* the step starts a _reset_connection because a window ended
WindowEndReset ==
    /\ Len(calls') > Len(calls)
    /\ \E i \in (Len(calls) + 1)..Len(calls') : calls'[i] = "window_end"

\* the step writes a record that is not interrupted
NormalFlush == ClosingStep /\ ~Written.interrupted

\* C16: a snapshot sets the end of the window to its timestamp plus the
\* recording duration and no other step moves it; an update that is not
\* dropped writes a normal record and starts a resync exactly when its
\* timestamp is at or beyond the end of the window; no other step writes a
\* normal record or starts such a resync, and none does before a snapshot
\* was handled.
C16WindowEnd ==
    [][ /\ SnapshotHandled =>
              ending_timestamp' = ev'.stream[2].v + (SECONDS_RECORDING_DURATION * 1000)
        /\ ~SnapshotHandled => ending_timestamp' = ending_timestamp
        /\ (FrameStep /\ UpdateHandled /\ ~are_new_messages_to_drop) =>
              ((NormalFlush /\ WindowEndReset /\ Len(tasks') = Len(tasks) + 1)
                  <=> ev'.stream[2].v >= ending_timestamp)
        /\ (NormalFlush \/ WindowEndReset) =>
              /\ FrameStep
              /\ UpdateHandled
              /\ ~are_new_messages_to_drop
              /\ ev'.stream[2].v >= ending_timestamp
              /\ Logged("snapshot") ]_vars

\* C16 witness: the update handled last carried exactly the timestamp of
\* the end of the window opened by a snapshot, wrote a normal record and
\* started a resync
C16Witness ==
    /\ Logged("snapshot")
    /\ Len(calls) > 2
    /\ calls[Len(calls)] = "unsubscribe"
    /\ calls[Len(calls) - 2] = "window_end"
    /\ ev.stream[1].kind = "list"
    /\ ev.stream[2].v = ending_timestamp
    /\ ending_timestamp = starting_timestamp + (SECONDS_RECORDING_DURATION * 1000)
    /\ ~LastFile.interrupted
    /\ tasks # <<>>

\* C17: a record written because a checksum did not match is interrupted
\* and is the journal of the current window up to last_checksum_timestamp,
\* which is not before the snapshot that opened the window: the record
\* holds the entry of that snapshot and no entry after
\* last_checksum_timestamp.
C17InterruptedRecord ==
    [][ (ClosingStep /\ ChecksumHandled) =>
            /\ Written.interrupted
            /\ Written.content =
                   get_orderbook_updates_until(timestamp_orderbook_update_map,
                                               last_checksum_timestamp)
            /\ \A k \in DOMAIN Written.content : k <= last_checksum_timestamp
            /\ last_checksum_timestamp >= starting_timestamp
            /\ starting_timestamp \in DOMAIN Written.content
            /\ "bids" \in DOMAIN Written.content[starting_timestamp] ]_vars

\* the journal the step leaves, or the record it writes when it closes the
\* window
JournalAfter == IF ClosingStep THEN Written.content ELSE timestamp_orderbook_update_map'

\* the entry is a delta entry: three lists
IsDelta(entry) == DOMAIN entry = {"p", "a", "c"}

\* C18: an update that is applied to the book is recorded: the handler
\* raises nothing and the journal holds, under the timestamp of the update,
\* a delta entry whose three lists end with its price, amount and count;
\* the three lists of every delta entry of the journal have the same
\* length; and the entry of the snapshot that opened the window stays the
\* copy of the book it was.
C18UpdateRecorded ==
    [][ /\ (FrameStep /\ UpdateHandled /\ ~are_new_messages_to_drop) =>
              LET timestamp == ev'.stream[2].v
                  level     == ev'.stream[1].v
              IN  /\ ev'.raised = "none"
                  /\ timestamp \in DOMAIN JournalAfter
                  /\ IsDelta(JournalAfter[timestamp])
                  /\ LET entry == JournalAfter[timestamp]
                     IN  /\ Len(entry.p) > 0
                         /\ entry.p[Len(entry.p)] = level[1].v
                         /\ entry.c[Len(entry.c)] = level[2].v
                         /\ entry.a[Len(entry.a)] = level[3].v
        /\ \A k \in DOMAIN timestamp_orderbook_update_map' :
              IsDelta(timestamp_orderbook_update_map'[k]) =>
                  LET entry == timestamp_orderbook_update_map'[k]
                  IN  Len(entry.p) = Len(entry.a) /\ Len(entry.a) = Len(entry.c)
        /\ (~SnapshotHandled
              /\ starting_timestamp \in DOMAIN timestamp_orderbook_update_map
              /\ starting_timestamp \in DOMAIN timestamp_orderbook_update_map') =>
              timestamp_orderbook_update_map'[starting_timestamp]
                  = timestamp_orderbook_update_map[starting_timestamp] ]_vars
-----------------------------------------------------------------------------
(* Progress of _reset_connection, under SpecLive.                          *)

\* a _reset_connection is in flight
Resyncing == tasks # <<>>

\* the script streams and the book holds the latest snapshot and the
\* updates delivered since
Populated ==
    /\ Streaming
    /\ order_book # EmptyBook
    /\ Content(order_book) = Content(expected)

\* C19: when the transport acknowledges every request and delivers the
\* snapshot of every new subscription, a resync in flight is followed by a
\* state in which the script streams, are_new_messages_to_drop is clear and
\* the book is populated from the new snapshot.
C19ResyncCompletes == Resyncing ~> Populated
-----------------------------------------------------------------------------
(* The sides of the book, under SpecBook.                                  *)

\* every level of the side is stored under its price, with a positive
\* count, and with an amount of the side's sign
SideOk(d, side) ==
    \A i \in 1..Len(d) :
        /\ d[i].key = d[i].val.p
        /\ d[i].val.c > 0
        /\ IF side = "bids" THEN d[i].val.a > 0 ELSE d[i].val.a <= 0

\* C20: every bid of the book has amount > 0 and count > 0, every ask has
\* amount <= 0 and count > 0, and every level is stored under its price;
\* update() leaves alone the side that the sign of the amount does not
\* select (bids for amount > 0, asks otherwise), and leaves the whole book
\* alone when the count is negative.
C20SidesWellFormed ==
    /\ SideOk(order_book.bids, "bids")
    /\ SideOk(order_book.asks, "asks")
    /\ frames > 0 =>
          LET level == LastLevel
              other == IF level.amount > 0 THEN "asks" ELSE "bids"
          IN  /\ order_book[other] = expected[other]
              /\ level.count < 0 => order_book = expected

\* C20 witness: update() stored a level of amount 0 on the ask side, and
\* was then called with a negative count at a price the bids hold
C20Witness ==
    /\ frames = 2
    /\ LastLevel.count < 0
    /\ LastLevel.price \in Keys(order_book.bids)
    /\ order_book = expected
    /\ \E i \in 1..Len(order_book.asks) : order_book.asks[i].val.a = 0
    /\ Len(order_book.bids) >= VerifyDepth
====
